---- MODULE Spec2Model ----
(***************************************************************************)
(* A model of pyls/_utils.py: the debounce decorator and race_hooks.       *)
(*                                                                         *)
(* debounce: every call of a debounced function runs lines 19-22 as        *)
(* separate interpreter steps (attribute test, attribute load, cancel,     *)
(* assignment, attribute load, start); no lock is taken, so the steps of   *)
(* calls made from different threads interleave.  Each threading.Timer is  *)
(* a thread of its own that waits on its `finished` event, tests it and    *)
(* then calls the function.                                                *)
(*                                                                         *)
(* race_hooks: the caller submits every impl to the pool, the pool's       *)
(* workers run _apply on them, and the caller consumes the outcomes in     *)
(* the order in which they complete.                                       *)
(***************************************************************************)
EXTENDS Naturals, Sequences, FiniteSets

\* ------------------------------------------------------------- bounds
MaxTriggers == 3      \* calls of debounced functions in one behaviour
MaxHandlers == 3      \* hook impls registered on the hook caller
MaxPool == 2          \* worker threads of the pool

Callers == {1, 2}     \* threads that call debounced functions
Funcs == {1, 2}       \* functions wrapped (separately) by debounce

VARIABLES
    threads,    \* debounce: the caller threads that exist in this run
    wrapped,    \* debounce: the debounced functions that exist in this run
    _timer,     \* debounce: [Funcs -> timer id], 0 when the attribute is absent
    timers,     \* debounce: sequence of Timer objects, indexed by timer id
    pc,         \* debounce: [Callers -> position inside debounced()]
    frame,      \* debounce: [Callers -> locals of the running call]
    calls,      \* debounce: history, one record per call of a debounced function
                \*   (prior: the timers of the function scheduled when it was entered;
                \*    inflight: those running the function when it was entered;
                \*    quiet: no interval of the function had elapsed when it returned;
                \*    started: the timer its start() started; error: what it raised)
    fired,      \* debounce: history, the executions of func, in order
    superseded, \* debounce: history, timers scheduled before a later call of their
                \*   function was entered and not yet running when it ended
    inTime,     \* debounce: history, timers cancelled before their interval elapsed
    impls,      \* race_hooks: the impls, hook_caller._nonwrappers + _wrappers
    behaviour,  \* race_hooks: [impl -> what impl.function(**kwargs) does]
    poolSize,   \* race_hooks: number of worker threads of `pool`
    rpc,        \* race_hooks: position of the caller
    queue,      \* race_hooks: tasks submitted and not yet taken by a worker
    running,    \* race_hooks: impls a worker is executing
    completed,  \* race_hooks: outcomes of _apply, in completion order
    consumed,   \* race_hooks: number of outcomes the for loop has taken
    outcome,    \* race_hooks: what the caller got (left: the impls whose outcome
                \*   had not been produced at that moment)
    log,        \* race_hooks: log.exception records (plugin names)
    invoked,    \* race_hooks: history, [impl -> times impl.function was called]
    imapCalls   \* race_hooks: history, number of calls of pool.imap_unordered

dvars == <<threads, wrapped, _timer, timers, pc, frame, calls, fired, superseded, inTime>>
rvars == <<impls, behaviour, poolSize, rpc, queue, running, completed, consumed,
           outcome, log, invoked, imapCalls>>
vars == <<dvars, rvars>>

\* ============================================================ debounce

\* The argument bundle (*args, **kwargs) of a call is opaque to debounce: every
\* call carries a bundle of its own, named by the number of the call.
ArgsOfCall(n) == n

NoFrame == [fn |-> 0, args |-> 0, ref |-> 0, call |-> 0]

\* threading.Timer(interval_s, func, args, kwargs): a thread not yet started,
\* its `finished` event clear.
NewTimerFirstArgs(f, a) == [fn |-> f, args |-> ArgsOfCall(1), state |-> "new",
                            finished |-> FALSE, elapsed |-> FALSE]
NewTimer(f, a) == [fn |-> f, args |-> a, state |-> "new",
                   finished |-> FALSE, elapsed |-> FALSE]

\* The `_timer` attribute lives on the function object `debounced`, and
\* wrapper() makes one such object for every function it wraps.
SlotShared(f) == 1
Slot(f) == f

\* hasattr(debounced, '_timer')
HasTimer(f) == _timer[Slot(f)] # 0

\* Timer.cancel(): sets the `finished` event, whatever the timer's state.
TimerCancelNothing(ts, t) == ts
TimerCancelInterrupts(ts, t) ==
    [ts EXCEPT ![t].finished = TRUE,
               ![t].state = IF @ = "running" THEN "waiting" ELSE @]
TimerCancel(ts, t) == [ts EXCEPT ![t].finished = TRUE]

\* The test `if not self.finished.is_set()` of Timer.run.
MayRun(tm) == ~tm.finished

TimerIds == 1..Len(timers)
Executions(t) == {i \in 1..Len(fired) : fired[i].timer = t}
FiredOn(f) == {i \in 1..Len(fired) : fired[i].fn = f}
TimersOf(f) == {t \in TimerIds : timers[t].fn = f}
CallsOn(f) == {i \in 1..Len(calls) : calls[i].fn = f}
\* no timer of f has waited out its interval
NoneElapsed(f) == \A t \in TimersOf(f) : ~timers[t].elapsed
\* started, function not yet called
Scheduled(t) == timers[t].state \in {"waiting", "woke", "calling"}
\* started, not cancelled, function not yet called
Pending(t) == Scheduled(t) /\ ~timers[t].finished

\* line 18-19: a thread calls debounced(*args) and tests hasattr.
Call(c, f) ==
    /\ c \in threads
    /\ f \in wrapped
    /\ pc[c] = "idle"
    /\ Len(calls) < MaxTriggers
    /\ calls' = Append(calls, [caller |-> c, fn |-> f,
                               args |-> ArgsOfCall(Len(calls) + 1),
                               status |-> "active", timer |-> 0, quiet |-> FALSE,
                               prior |-> {t \in TimersOf(f) : Scheduled(t)},
                               inflight |-> {t \in TimersOf(f) :
                                                timers[t].state = "running"},
                               started |-> 0, error |-> "none"])
    /\ frame' = [frame EXCEPT ![c] = [fn |-> f, args |-> ArgsOfCall(Len(calls) + 1),
                                      ref |-> 0, call |-> Len(calls) + 1]]
    /\ pc' = [pc EXCEPT ![c] = IF HasTimer(f) THEN "load_cancel" ELSE "assign"]
    /\ UNCHANGED <<threads, wrapped, _timer, timers, fired, superseded, inTime, rvars>>

\* line 20, the attribute load of `debounced._timer`.
LoadForCancel(c) ==
    /\ pc[c] = "load_cancel"
    /\ frame' = [frame EXCEPT ![c].ref = _timer[Slot(frame[c].fn)]]
    /\ pc' = [pc EXCEPT ![c] = "cancel"]
    /\ UNCHANGED <<threads, wrapped, _timer, timers, calls, fired, superseded, inTime, rvars>>

\* line 20, the call of .cancel() on the loaded timer.
Cancel(c) ==
    /\ pc[c] = "cancel"
    /\ timers' = TimerCancel(timers, frame[c].ref)
    /\ inTime' = IF timers[frame[c].ref].state \in {"new", "waiting"}
                 THEN inTime \cup {frame[c].ref} ELSE inTime
    /\ frame' = [frame EXCEPT ![c].ref = 0]
    /\ pc' = [pc EXCEPT ![c] = "assign"]
    /\ UNCHANGED <<threads, wrapped, _timer, calls, fired, superseded, rvars>>

\* line 21: a new Timer is built from this call's arguments and stored.
Assign(c) ==
    /\ pc[c] = "assign"
    /\ timers' = Append(timers, NewTimer(frame[c].fn, frame[c].args))
    /\ _timer' = [_timer EXCEPT ![Slot(frame[c].fn)] = Len(timers) + 1]
    /\ calls' = [calls EXCEPT ![frame[c].call].timer = Len(timers) + 1]
    /\ pc' = [pc EXCEPT ![c] = "load_start"]
    /\ UNCHANGED <<threads, wrapped, frame, fired, superseded, inTime, rvars>>

\* line 22, the attribute load of `debounced._timer`.
LoadForStart(c) ==
    /\ pc[c] = "load_start"
    /\ frame' = [frame EXCEPT ![c].ref = _timer[Slot(frame[c].fn)]]
    /\ pc' = [pc EXCEPT ![c] = "start"]
    /\ UNCHANGED <<threads, wrapped, _timer, timers, calls, fired, superseded, inTime, rvars>>

\* The RuntimeError of Thread.start.
StartError(tm) == IF tm.state = "new" THEN "cannot_start" ELSE "already_started"

\* line 22, the call of .start(): Thread.start raises RuntimeError when the
\* thread was started before, and when no new thread can be created.
Start(c) ==
    /\ pc[c] = "start"
    /\ \E ok \in BOOLEAN :
         IF ok /\ timers[frame[c].ref].state = "new"
         THEN /\ timers' = [timers EXCEPT ![frame[c].ref].state = "waiting"]
              /\ calls' = [calls EXCEPT ![frame[c].call].status = "returned",
                                        ![frame[c].call].quiet = NoneElapsed(frame[c].fn),
                                        ![frame[c].call].started = frame[c].ref]
         ELSE /\ timers' = timers
              /\ calls' = [calls EXCEPT ![frame[c].call].status = "raised",
                                        ![frame[c].call].error =
                                            StartError(timers[frame[c].ref])]
    /\ superseded' = superseded \cup
           {t \in calls[frame[c].call].prior : Scheduled(t)}
    /\ frame' = [frame EXCEPT ![c] = NoFrame]
    /\ pc' = [pc EXCEPT ![c] = "idle"]
    /\ UNCHANGED <<threads, wrapped, _timer, fired, inTime, rvars>>

\* Timer.run: self.finished.wait(self.interval) times out.
Timeout(t) ==
    /\ t \in TimerIds
    /\ timers[t].state = "waiting"
    /\ ~timers[t].finished
    /\ timers' = [timers EXCEPT ![t].state = "woke", ![t].elapsed = TRUE]
    /\ UNCHANGED <<threads, wrapped, _timer, pc, frame, calls, fired, superseded, inTime, rvars>>

\* Timer.run: self.finished.wait(self.interval) returns because the event is set.
Woken(t) ==
    /\ t \in TimerIds
    /\ timers[t].state = "waiting"
    /\ timers[t].finished
    /\ timers' = [timers EXCEPT ![t].state = "woke"]
    /\ UNCHANGED <<threads, wrapped, _timer, pc, frame, calls, fired, superseded, inTime, rvars>>

\* Timer.run: `if not self.finished.is_set()`.
CheckFinished(t) ==
    /\ t \in TimerIds
    /\ timers[t].state = "woke"
    /\ timers' = [timers EXCEPT ![t].state =
                      IF MayRun(timers[t]) THEN "calling" ELSE "done",
                                ![t].finished =
                      IF MayRun(timers[t]) THEN @ ELSE TRUE]
    /\ UNCHANGED <<threads, wrapped, _timer, pc, frame, calls, fired, superseded, inTime, rvars>>

\* Timer.run: self.function(*self.args, **self.kwargs) begins.
RunFunction(t) ==
    /\ t \in TimerIds
    /\ timers[t].state = "calling"
    /\ timers' = [timers EXCEPT ![t].state = "running"]
    /\ fired' = Append(fired, [timer |-> t, fn |-> timers[t].fn,
                               args |-> timers[t].args])
    /\ UNCHANGED <<threads, wrapped, _timer, pc, frame, calls, superseded, inTime, rvars>>

\* Timer.run: the function returns, then self.finished.set().
FunctionReturns(t) ==
    /\ t \in TimerIds
    /\ timers[t].state = "running"
    /\ timers' = [timers EXCEPT ![t].state = "done", ![t].finished = TRUE]
    /\ UNCHANGED <<threads, wrapped, _timer, pc, frame, calls, fired, superseded, inTime, rvars>>

CallerStep == \E c \in Callers :
    LoadForCancel(c) \/ Cancel(c) \/ Assign(c) \/ LoadForStart(c) \/ Start(c)
TimerStep == \E t \in 1..MaxTriggers :
    Timeout(t) \/ Woken(t) \/ CheckFinished(t) \/ RunFunction(t) \/ FunctionReturns(t)

NoOutcome == [kind |-> "pending", value |-> <<>>, left |-> {}]

RaceIdle ==
    /\ impls = <<>>
    /\ behaviour = <<>>
    /\ poolSize = 1
    /\ rpc = "idle"
    /\ queue = <<>>
    /\ running = {}
    /\ completed = <<>>
    /\ consumed = 0
    /\ outcome = NoOutcome
    /\ log = <<>>
    /\ invoked = <<>>
    /\ imapCalls = 0

DebounceInit(ths, fns) ==
    /\ threads = ths
    /\ wrapped = fns
    /\ _timer = [f \in Funcs |-> 0]
    /\ timers = <<>>
    /\ pc = [c \in Callers |-> "idle"]
    /\ frame = [c \in Callers |-> NoFrame]
    /\ calls = <<>>
    /\ fired = <<>>
    /\ superseded = {}
    /\ inTime = {}

\* Calls of one debounced function made from several threads.
Init == DebounceInit(Callers, {1}) /\ RaceIdle
\* Calls of the debounced functions made one after the other by one thread.
InitSeq == DebounceInit({1}, Funcs) /\ RaceIdle
\* Calls of the debounced functions made from several threads.
InitTwo == DebounceInit(Callers, Funcs) /\ RaceIdle
\* Calls of one debounced function made one after the other by one thread.
InitSolo == DebounceInit({1}, {1}) /\ RaceIdle

Next ==
    \/ \E c \in Callers, f \in Funcs : Call(c, f)
    \/ \E c \in Callers : LoadForCancel(c)
    \/ \E c \in Callers : Cancel(c)
    \/ \E c \in Callers : Assign(c)
    \/ \E c \in Callers : LoadForStart(c)
    \/ \E c \in Callers : Start(c)
    \/ \E t \in 1..MaxTriggers : Timeout(t)
    \/ \E t \in 1..MaxTriggers : Woken(t)
    \/ \E t \in 1..MaxTriggers : CheckFinished(t)
    \/ \E t \in 1..MaxTriggers : RunFunction(t)
    \/ \E t \in 1..MaxTriggers : FunctionReturns(t)

Spec == Init /\ [][Next]_vars
SpecSeq == InitSeq /\ [][Next]_vars
SpecTwo == InitTwo /\ [][Next]_vars
\* Every thread that can take a step is eventually scheduled: a call that was
\* entered runs to its end and a started timer thread runs to its end.  No
\* fairness on Call: nothing obliges a thread to call again.
SpecSeqFair == InitSolo /\ [][Next]_vars /\ WF_vars(CallerStep) /\ WF_vars(TimerStep)
\* ========================================================== race_hooks

\* What impl.function(**kwargs) may do: return None, return a falsy value that
\* is not None, return another value, or raise.
Behaviours == {"none", "falsy", "value", "raise"}

None == <<"None">>
\* The value impl h returns, and the exception it raises: each impl has its own.
FunctionResult(h) ==
    IF behaviour[h] = "none" THEN None ELSE <<behaviour[h], h>>
Exception(h) == <<"error", h>>
\* impl.plugin_name
PluginNameOfHook(h) == <<"plugin", 0>>
PluginName(h) == <<"plugin", h>>

Range(s) == {s[i] : i \in 1..Len(s)}
Permutations(n) == {s \in [1..n -> 1..n] : \A i, j \in 1..n : s[i] = s[j] => i = j}

\* line 100: `if not impls`
NoImplsNever == FALSE
NoImpls == impls = <<>>

\* _apply(impl), lines 103-108: the pair (impl, result), or the exception, which
\* the pool hands to the iterator in place of a result.
ApplySwallows(h) ==
    [impl |-> h, ok |-> TRUE,
     result |-> IF behaviour[h] = "raise" THEN None ELSE FunctionResult(h)]
Apply(h) ==
    IF behaviour[h] = "raise"
    THEN [impl |-> h, ok |-> FALSE, result |-> Exception(h)]
    ELSE [impl |-> h, ok |-> TRUE, result |-> FunctionResult(h)]

\* line 114: `if result is not None`
IsAnswerTruthy(r) == r[1] = "value"
IsAnswer(r) == r # None

\* What the iterator of pool.imap_unordered can yield now: the outcomes come in
\* the order in which the tasks finish.
NextReadyInOrder ==
    {o \in Range(completed) : consumed < Len(impls) /\ o.impl = impls[consumed + 1]}
NextReady ==
    IF consumed < Len(completed) THEN {completed[consumed + 1]} ELSE {}

\* The iterator raises StopIteration once every task's outcome was yielded.
ExhaustedWhenNothingReady == consumed = Len(completed)
IteratorExhausted == consumed = Len(impls)

\* pool.imap_unordered(_apply, impls, chunksize=1): one task for every impl.
TasksTwice == impls \o impls
Tasks == impls

\* What a worker puts on the iterator's result queue when _apply(impl) ends:
\* its outcome, the pair or the exception.
DeliveredUnlessRaised(h) == IF Apply(h).ok THEN <<Apply(h)>> ELSE <<>>
Delivered(h) == <<Apply(h)>>

\* The caller is inside the for loop of line 113: `return` and `raise` leave it.
LoopNeverLeft == rpc \in {"iterating", "returned", "raised"}
LoopActive == rpc = "iterating"

Unfinished == Range(impls) \ {completed[i].impl : i \in 1..Len(completed)}

\* lines 97-113: race_hooks is called; with no impls it returns None at once,
\* otherwise it hands every impl to the pool, one task each (chunksize=1).
RaceHooks ==
    /\ rpc = "called"
    /\ IF NoImpls
       THEN /\ rpc' = "returned"
            /\ outcome' = [kind |-> "NoResult", value |-> None, left |-> {}]
            /\ UNCHANGED <<queue, imapCalls>>
       ELSE /\ rpc' = "iterating"
            /\ queue' = Tasks
            /\ imapCalls' = imapCalls + 1
            /\ UNCHANGED outcome
    /\ UNCHANGED <<impls, behaviour, poolSize, running, completed, consumed, log,
                   invoked, dvars>>

\* A worker thread of the pool that has nothing to do takes the oldest task and
\* calls _apply on it (line 105: impl.function(**kwargs) is entered).
WorkerTakes ==
    /\ queue # <<>>
    /\ Cardinality(running) < poolSize
    /\ running' = running \cup {Head(queue)}
    /\ invoked' = [invoked EXCEPT ![Head(queue)] = @ + 1]
    /\ queue' = Tail(queue)
    /\ UNCHANGED <<impls, behaviour, poolSize, rpc, completed, consumed, outcome,
                   log, imapCalls, dvars>>

\* lines 104-108: impl.function returns or raises inside the worker; a failure
\* is logged with the plugin's name before it is re-raised.
WorkerFinishes(h) ==
    /\ h \in running
    /\ running' = running \ {h}
    /\ completed' = completed \o Delivered(h)
    /\ log' = IF Apply(h).ok THEN log ELSE Append(log, PluginName(h))
    /\ UNCHANGED <<impls, behaviour, poolSize, rpc, queue, consumed, outcome,
                   invoked, imapCalls, dvars>>

\* lines 113-116: the for loop takes the next outcome: an exception is raised to
\* the caller, a result that is not None is returned, None is skipped.
Consume ==
    /\ LoopActive
    /\ \E o \in NextReady :
         /\ consumed' = consumed + 1
         /\ IF ~o.ok
            THEN /\ rpc' = "raised"
                 /\ outcome' = [kind |-> "Failed", value |-> o.result,
                                left |-> Unfinished]
            ELSE IF IsAnswer(o.result)
            THEN /\ rpc' = "returned"
                 /\ outcome' = [kind |-> "Result", value |-> o.result,
                                left |-> Unfinished]
            ELSE UNCHANGED <<rpc, outcome>>
    /\ UNCHANGED <<impls, behaviour, poolSize, queue, running, completed, log,
                   invoked, imapCalls, dvars>>

\* line 113 ends the loop and the function falls off its end: None is returned.
Exhausted ==
    /\ LoopActive
    /\ IteratorExhausted
    /\ rpc' = "returned"
    /\ outcome' = [kind |-> "NoResult", value |-> None, left |-> Unfinished]
    /\ UNCHANGED <<impls, behaviour, poolSize, queue, running, completed, consumed,
                   log, invoked, imapCalls, dvars>>

\* One call of race_hooks: any number of impls in any registration order, each
\* doing any of the things an impl may do, on a pool of any size.
InitRace ==
    /\ DebounceInit({}, {})
    /\ \E n \in 0..MaxHandlers :
         /\ impls \in Permutations(n)
         /\ behaviour \in [1..n -> Behaviours]
         /\ invoked = [h \in 1..n |-> 0]
    /\ poolSize \in 1..MaxPool
    /\ rpc = "called"
    /\ queue = <<>>
    /\ running = {}
    /\ completed = <<>>
    /\ consumed = 0
    /\ outcome = NoOutcome
    /\ log = <<>>
    /\ imapCalls = 0

NextRace ==
    \/ RaceHooks
    \/ WorkerTakes
    \/ \E h \in 1..MaxHandlers : WorkerFinishes(h)
    \/ Consume
    \/ Exhausted

SpecRace == InitRace /\ [][NextRace]_vars
\* The caller's thread and the pool's workers are scheduled, and every impl that
\* was entered comes to an end, by returning or by raising.
RaceCallerStep == RaceHooks \/ Consume \/ Exhausted
ImplEnds == \E h \in 1..MaxHandlers : WorkerFinishes(h)
\* Whether a race ends does not depend on the names of the impls: the impls are
\* numbered in their registration order, each doing any of the things it may do.
InitRaceOrdered == InitRace /\ \A i \in 1..Len(impls) : impls[i] = i
SpecRaceFair ==
    /\ InitRaceOrdered /\ [][NextRace]_vars
    /\ WF_vars(RaceCallerStep) /\ WF_vars(WorkerTakes) /\ WF_vars(ImplEnds)

\* ============================================================ claims

LastTimer(f) == CHOOSE t \in TimersOf(f) : \A u \in TimersOf(f) : u <= t
CallOfTimer(t) == CHOOSE i \in 1..Len(calls) : calls[i].timer = t
NoCallActiveOn(f) == \A i \in CallsOn(f) : calls[i].status # "active"
AllDone(f) == \A t \in TimersOf(f) : timers[t].state \in {"new", "done"}

\* At least two calls of f were made, all have returned normally, and no
\* interval of f had elapsed when the last of them returned.
RacedAndReturned(f) ==
    /\ Cardinality(CallsOn(f)) >= 2
    /\ \A i \in CallsOn(f) : calls[i].status = "returned" /\ calls[i].quiet

\* C1: after N >= 2 trigger calls made in one quiet period, in any interleaving,
\* have all returned, exactly one started, un-cancelled timer is pending, and
\* exactly one execution of the target action results.
C1_OneTimerSurvivesRace ==
    \A f \in Funcs : RacedAndReturned(f) =>
        /\ NoneElapsed(f) => Cardinality({t \in TimersOf(f) : Pending(t)}) = 1
        /\ Cardinality(FiredOn(f)) <= 1
        /\ AllDone(f) => Cardinality(FiredOn(f)) = 1

\* C2: in every reachable state a debounced function has at most one live
\* pending timer (started, not cancelled, not yet fired).
C2_AtMostOnePending ==
    \A f \in Funcs : Cardinality({t \in TimersOf(f) : Pending(t)}) <= 1

\* Every timer of f but the newest was cancelled before its interval elapsed,
\* and no call of f failed.
Burst(f) ==
    /\ TimersOf(f) # {}
    /\ \A t \in TimersOf(f) \ {LastTimer(f)} : t \in inTime
    /\ \A i \in CallsOn(f) : calls[i].status # "raised"

\* C3: for a burst of sequential trigger calls, each made before the interval of
\* the previous one has elapsed, the target action executes only for the last
\* call, with its arguments, after its interval has elapsed, at most once, and
\* exactly once when all timers have run to their end.
C3_BurstFiresOnceWithLastArgs ==
    \A f \in Funcs : Burst(f) =>
        /\ \A i \in FiredOn(f) :
              /\ fired[i].timer = LastTimer(f)
              /\ fired[i].args = calls[CallOfTimer(LastTimer(f))].args
              /\ timers[fired[i].timer].elapsed
        /\ Cardinality(FiredOn(f)) <= 1
        /\ (NoCallActiveOn(f) /\ AllDone(f)) =>
              /\ Cardinality(FiredOn(f)) = 1
              /\ \A i \in CallsOn(f) : calls[i].timer <= LastTimer(f)
              /\ \A i \in CallsOn(f) : i <= CallOfTimer(LastTimer(f))

\* A burst of three calls of one function has run to its end.
C3_Witness ==
    \E f \in Funcs :
        /\ Burst(f) /\ NoCallActiveOn(f) /\ AllDone(f)
        /\ Cardinality(CallsOn(f)) = 3
        /\ Cardinality(FiredOn(f)) = 1

\* C4: a timer that was scheduled before a later trigger call of its function
\* was entered, and had not begun executing the target action when that call
\* ended, never executes the action.
C4_SupersededNeverRuns ==
    \A t \in superseded : Executions(t) = {}
\* A started timer that no later call of its function found still scheduled:
\* its trigger was followed by no further trigger before it fired.
Isolated(t) ==
    /\ t \in TimerIds
    /\ timers[t].state # "new"
    /\ \A i \in CallsOn(timers[t].fn) : t \notin calls[i].prior

IsolatedFiresOnce ==
    \A t \in TimerIds : Isolated(t) =>
        /\ Cardinality(Executions(t)) <= 1
        /\ \A i \in Executions(t) : fired[i].args = calls[CallOfTimer(t)].args
        /\ timers[t].state \in {"running", "done"} => Cardinality(Executions(t)) = 1

\* C5: a trigger call followed by no further trigger eventually fires the target
\* action, exactly once and with that call's arguments; a trigger made after that
\* firing fires a second time, independently, with its own arguments.
C5_IsolatedTriggerFires ==
    /\ []IsolatedFiresOnce
    /\ \A t \in 1..MaxTriggers :
          Isolated(t) ~> (~Isolated(t) \/ Executions(t) # {})

\* Two triggers of one function, the second made after the first had fired,
\* have both fired, each with the arguments of its own call.
C5_Witness ==
    \E f \in Funcs : \E t, u \in TimersOf(f) :
        /\ t < u /\ Isolated(t) /\ Isolated(u)
        /\ Len(fired) = 2
        /\ fired[1].timer = t /\ fired[1].args = calls[CallOfTimer(t)].args
        /\ fired[2].timer = u /\ fired[2].args = calls[CallOfTimer(u)].args
        /\ fired[1].args # fired[2].args
Done == rpc \in {"returned", "raised"}
Raisers == {h \in Range(impls) : behaviour[h] = "raise"}
Answerers == {h \in Range(impls) : behaviour[h] \in {"falsy", "value"}}
\* The places, in completion order, of the outcomes that end a race: an
\* exception, or a result that is not None.
Decisive == {i \in 1..Len(completed) :
                behaviour[completed[i].impl] \in {"raise", "falsy", "value"}}
IsFirst(i, S) == i \in S /\ \A j \in S : i <= j
PlaceOf(h) == CHOOSE i \in 1..Len(impls) : impls[i] = h

\* C6: when exactly one impl returns a value that is not None, the others return
\* None and none raises, race_hooks returns that impl's value, whatever the
\* registration order and the completion order.
C6_SingleAnswerWins ==
    \A h \in Range(impls) :
        (Done /\ Answerers = {h} /\ Raisers = {}) =>
            /\ rpc = "returned"
            /\ outcome.kind = "Result"
            /\ outcome.value = <<behaviour[h], h>>

\* The only answering impl was registered last of three, finished second, and
\* the race returned while the impl registered first had not finished.
C6_Witness ==
    /\ Len(impls) = 3 /\ Raisers = {} /\ Answerers = {impls[3]}
    /\ rpc = "returned"
    /\ Len(completed) >= 2 /\ completed[2].impl = impls[3]
    /\ impls[1] \in outcome.left

\* C7: when an impl raises and no impl that completed before it returned a value
\* that is not None, race_hooks raises that impl's exception, after a log record
\* naming the impl, and the caller is not kept waiting for impls that have not
\* finished: it can take every outcome that has been produced.
C7_FirstFailurePropagates ==
    /\ \A i \in Decisive :
          (Done /\ IsFirst(i, Decisive) /\ completed[i].impl \in Raisers) =>
              /\ rpc = "raised"
              /\ outcome.kind = "Failed"
              /\ outcome.value = Exception(completed[i].impl)
              /\ PluginName(completed[i].impl) \in Range(log)
              /\ outcome.left \cap {completed[j].impl : j \in 1..i} = {}
    /\ outcome.kind = "Failed" =>
          \E i \in Decisive : /\ IsFirst(i, Decisive)
                              /\ completed[i].impl \in Raisers
                              /\ outcome.value = Exception(completed[i].impl)
    /\ (rpc = "iterating" /\ consumed < Len(completed)) => ENABLED Consume

\* The race has raised while an impl that returns a value was still unfinished.
C7_Witness ==
    /\ rpc = "raised" /\ outcome.kind = "Failed"
    /\ \E h \in outcome.left : behaviour[h] = "value"
    /\ \E i \in 1..Len(completed) : i < consumed /\ behaviour[completed[i].impl] = "none"

\* C8: when every impl returns None, race_hooks returns None, and only after
\* every impl has completed.
C8_AllNoneGivesNone ==
    (Done /\ impls # <<>> /\ \A h \in Range(impls) : behaviour[h] = "none") =>
        /\ rpc = "returned"
        /\ outcome.kind = "NoResult"
        /\ outcome.value = None
        /\ outcome.left = {}
        /\ Len(completed) = Len(impls)

\* Three impls that all return None, and the race has returned.
C8_Witness ==
    /\ Len(impls) = 3 /\ \A h \in Range(impls) : behaviour[h] = "none"
    /\ rpc = "returned" /\ outcome.kind = "NoResult"

\* C9: with no impls race_hooks returns None, pool.imap_unordered is never
\* called, no task is queued and no worker runs anything.
C9_EmptyReturnsNoneUnpooled ==
    (rpc # "idle" /\ impls = <<>>) =>
        /\ imapCalls = 0
        /\ queue = <<>> /\ running = {} /\ completed = <<>>
        /\ rpc \in {"called", "returned"}
        /\ rpc = "returned" => (outcome.kind = "NoResult" /\ outcome.value = None)

\* race_hooks was called with no impls and has returned.
C9_Witness ==
    impls = <<>> /\ rpc = "returned" /\ outcome.kind = "NoResult"

\* C10: the value race_hooks returns is the value of the impl that is first in
\* completion order among those that returned a value that is not None,
\* whatever their places in the registration order.
C10_FirstCompletedAnswerWins ==
    outcome.kind = "Result" =>
        \E i \in 1..Len(completed) :
            /\ IsFirst(i, {j \in 1..Len(completed) : completed[j].impl \in Answerers})
            /\ outcome.value = <<behaviour[completed[i].impl], completed[i].impl>>

\* Two impls can answer; the one registered later finished first and its value
\* was returned, and the other one has finished since.
C10_Witness ==
    /\ outcome.kind = "Result"
    /\ \E h, g \in Answerers :
          /\ PlaceOf(g) < PlaceOf(h)
          /\ outcome.value = <<behaviour[h], h>>
          /\ \E i, j \in 1..Len(completed) :
                i < j /\ completed[i].impl = h /\ completed[j].impl = g
\* C11: every impl handed to the pool gets a worker of its own: no impl's start
\* has to wait until another impl of the same race has finished.
C11_NoHandlerWaitsBehindAnother ==
    queue # <<>> => Cardinality(running) < poolSize

\* The caller has exactly one outcome, taken from the completion it consumed
\* last, and the impls it left behind are those not consumed before it.
OneOutcome ==
    /\ Done <=> outcome.kind \in {"Result", "NoResult", "Failed"}
    /\ outcome.kind = "Result" =>
          /\ rpc = "returned"
          /\ consumed <= Len(completed)
          /\ outcome.value = completed[consumed].result
          /\ outcome.left \cap {completed[j].impl : j \in 1..consumed} = {}
          /\ Cardinality(outcome.left) = Len(impls) - Len(completed)
                 + Cardinality({j \in 1..Len(completed) :
                                   completed[j].impl \in outcome.left})
    /\ (rpc = "iterating" /\ consumed < Len(completed)) => ENABLED Consume

\* C12: once race_hooks has an outcome it has returned, without waiting for the
\* impls that have not finished; what they produce afterwards changes nothing:
\* the caller has exactly one outcome and takes nothing more.
C12_OutcomeIsFinal ==
    /\ []OneOutcome
    /\ [][Done => (outcome' = outcome /\ rpc' = rpc /\ consumed' = consumed)]_vars

\* The race returned a value while two impls had not finished; one of them has
\* since raised and the other has since returned a value of its own.
C12_Witness ==
    /\ outcome.kind = "Result" /\ Unfinished = {}
    /\ \E h, g \in outcome.left : behaviour[h] = "raise" /\ behaviour[g] = "value"
\* The timers that were executing the function when call i was entered have
\* executed it once, with the arguments of their own call, and are running or
\* done; the timer of call i is another timer and executes after them, with the
\* arguments of call i.
InFlightKept(i) ==
    \A t \in calls[i].inflight :
        /\ timers[t].state \in {"running", "done"}
        /\ Cardinality(Executions(t)) = 1
        /\ \A e \in Executions(t) : fired[e].args = calls[CallOfTimer(t)].args
        /\ calls[i].timer # t
        /\ \A e \in Executions(t) : \A d \in 1..Len(fired) :
              fired[d].timer = calls[i].timer =>
                  (e < d /\ fired[d].args = calls[i].args)

\* C13: a trigger call made after a timer has begun executing the target action
\* leaves that execution alone, which runs to its end with its own arguments,
\* and schedules a separate invocation, which fires later with the new
\* arguments unless a further trigger supersedes it.
C13_InFlightRunsAndNewFires ==
    /\ [](\A i \in 1..Len(calls) : InFlightKept(i))
    /\ \A i \in 1..MaxTriggers :
          (/\ i <= Len(calls)
           /\ calls[i].inflight # {}
           /\ calls[i].status = "returned"
           /\ Isolated(calls[i].timer))
          ~> (/\ i <= Len(calls)
              /\ \/ ~Isolated(calls[i].timer)
                 \/ /\ Executions(calls[i].timer) # {}
                    /\ \A t \in calls[i].inflight : timers[t].state = "done")

\* A call was entered while a timer was executing the function; that timer has
\* run to its end and the timer of the call has fired after it.
C13_Witness ==
    \E i \in 1..Len(calls) : \E t \in calls[i].inflight :
        /\ timers[t].state = "done"
        /\ calls[i].status = "returned"
        /\ Len(fired) = 2
        /\ fired[1].timer = t /\ fired[1].args = calls[CallOfTimer(t)].args
        /\ fired[2].timer = calls[i].timer /\ fired[2].args = calls[i].args
        /\ timers[t].finished
\* C14: within one race every impl is invoked at most once, also when the race
\* ends early with a winner or with a failure.
C14_EachImplInvokedAtMostOnce ==
    /\ \A h \in Range(impls) : invoked[h] <= 1
    /\ \A h \in Range(impls) :
          Cardinality({i \in 1..Len(completed) : completed[i].impl = h}) <= invoked[h]

\* The race ended early, with a winner or a failure, while impls had not
\* finished; by now every impl has been invoked, once.
C14_Witness ==
    /\ Len(impls) = 3 /\ Done /\ outcome.kind \in {"Result", "Failed"}
    /\ Cardinality(outcome.left) = 2
    /\ \A h \in Range(impls) : invoked[h] = 1

\* C15: when every impl comes to an end, race_hooks ends with one of its three
\* outcomes and the workers run out of work: an impl that raises leaves neither
\* the caller nor a worker blocked.
C15_RaceTerminates ==
    /\ <>[](Done /\ outcome.kind \in {"Result", "NoResult", "Failed"})
    /\ <>[](queue = <<>> /\ running = {} /\ Unfinished = {})

\* An impl has raised, the caller has its outcome and no worker has work left.
C15_Witness ==
    /\ Done /\ Raisers # {} /\ Len(impls) = 3
    /\ queue = <<>> /\ running = {} /\ Unfinished = {}

\* C16: only None is an empty answer: a result that is falsy but not None wins
\* the race and is returned like any other value; the results that were passed
\* over are all None.
C16_FalsyButNotNoneWins ==
    /\ \A i \in Decisive :
          (Done /\ IsFirst(i, Decisive) /\ behaviour[completed[i].impl] = "falsy") =>
              /\ rpc = "returned"
              /\ outcome.kind = "Result"
              /\ outcome.value = <<"falsy", completed[i].impl>>
    /\ \A j \in 1..Len(completed) :
          (j < consumed \/ (j = consumed /\ ~Done)) =>
              behaviour[completed[j].impl] = "none"

\* A falsy result was returned although an impl with a truthy value was racing.
C16_Witness ==
    /\ outcome.kind = "Result" /\ outcome.value[1] = "falsy"
    /\ \E h \in Range(impls) : behaviour[h] = "value"
    /\ \E j \in 1..Len(completed) : j < consumed

\* C17: every impl that has raised has left a log record that names it, no later
\* than its exception can reach the caller, also when it raised after the race
\* had returned a winner.
C17_EveryFailureIsLogged ==
    /\ \A i \in 1..Len(completed) :
          completed[i].impl \in Raisers =>
              Cardinality({k \in 1..Len(log) : log[k] = <<"plugin", completed[i].impl>>}) = 1
    /\ \A k \in 1..Len(log) :
          \E i \in 1..Len(completed) :
              completed[i].impl \in Raisers /\ log[k] = <<"plugin", completed[i].impl>>
    /\ Len(log) = Cardinality({i \in 1..Len(completed) : completed[i].impl \in Raisers})

\* An impl raised after the race had returned another impl's value, and the log
\* names it.
C17_Witness ==
    /\ outcome.kind = "Result"
    /\ \E h \in outcome.left \cap Raisers : <<"plugin", h>> \in Range(log)
\* C18: when start() cannot schedule the timer of a trigger call, that call
\* raises, its arguments are never passed to the target action, and a later
\* call of the function is not affected: it starts its own timer, or fails only
\* because its own timer cannot be scheduled.
C18_SchedulingFailureIsContained ==
    \A i \in 1..Len(calls) : calls[i].error = "cannot_start" =>
        /\ calls[i].status = "raised"
        /\ \A e \in 1..Len(fired) : fired[e].args # calls[i].args
        /\ \A j \in CallsOn(calls[i].fn) : j > i =>
              /\ calls[j].status = "returned" => calls[j].started = calls[j].timer
              /\ calls[j].status = "raised" => calls[j].error = "cannot_start"
\* C19: in any interleaving of calls, every timer that is created is started,
\* once, by the call that created it: a call that returns has started its own
\* timer, and no call fails because the timer it starts was started already.
C19_EachTimerStartedByItsCall ==
    \A i \in 1..Len(calls) :
        /\ calls[i].status = "returned" => calls[i].started = calls[i].timer
        /\ calls[i].error # "already_started"
        /\ (calls[i].status = "raised" /\ calls[i].error # "cannot_start") =>
              timers[calls[i].timer].state # "new"

\* The function a step of a caller thread works on.
StepsOn(c, f) ==
    /\ pc'[c] # pc[c]
    /\ f = IF pc[c] = "idle" THEN frame'[c].fn ELSE frame[c].fn

\* A step of a call of f leaves the `_timer` attribute and the timers of every
\* other function as they are; it cancels only a timer of f, whatever the
\* arguments that timer was created with, and stores its own timer on f.
CallTouchesOwnFunctionOnly ==
    \A c \in Callers : \A f \in Funcs : StepsOn(c, f) =>
        /\ \A g \in Funcs \ {f} :
              /\ _timer'[g] = _timer[g]
              /\ {t \in 1..Len(timers') : timers'[t].fn = g} = TimersOf(g)
              /\ \A t \in TimersOf(g) : timers'[t] = timers[t]
        /\ pc[c] = "cancel" =>
              /\ frame[c].ref \in TimersOf(f)
              /\ timers'[frame[c].ref].finished
        /\ pc[c] = "assign" =>
              /\ _timer'[f] = Len(timers')
              /\ timers'[_timer'[f]].fn = f
              /\ timers'[_timer'[f]].args = frame[c].args

\* The attribute of f holds a timer of f; the timer of a call belongs to the
\* function that was called and carries that call's arguments.
SlotPerFunction ==
    /\ \A f \in Funcs : _timer[f] # 0 => _timer[f] \in TimersOf(f)
    /\ \A i \in 1..Len(calls) : calls[i].timer # 0 =>
          /\ timers[calls[i].timer].fn = calls[i].fn
          /\ timers[calls[i].timer].args = calls[i].args

\* C20: two functions wrapped separately have independent pending timers: a
\* call of one never cancels, replaces or touches the timers of the other; the
\* calls of one function, whatever their arguments, go through the one `_timer`
\* attribute of that function.
C20_TimersArePerFunction ==
    []SlotPerFunction /\ [][CallTouchesOwnFunctionOnly]_vars

\* Two calls of one function with different arguments: the second cancelled the
\* timer of the first; a call of the other function came last, and the pending
\* timers of the two functions are both still waiting.
C20_Witness ==
    /\ Len(calls) = 3 /\ calls[1].fn = calls[2].fn /\ calls[3].fn # calls[1].fn
    /\ calls[1].args # calls[2].args
    /\ \A i \in 1..3 : calls[i].status = "returned"
    /\ calls[1].timer \in inTime
    /\ Pending(calls[2].timer) /\ Pending(calls[3].timer)
    /\ timers[calls[2].timer].state = "waiting"
====
